---- MODULE Spec2Model ----
\* Boot sequencer of the Redox UEFI bootloader (x86_64), with the firmware it
\* runs under as the environment: block-device handles, configuration tables,
\* the memory map and its key, ExitBootServices.
EXTENDS Integers, Sequences, FiniteSets, TLC

\* ---------------------------------------------------------------- bounds
MaxDesc == 2        \* descriptors in a firmware memory map
MaxCfg == 2         \* entries in the firmware configuration table
MaxHandles == 2     \* block-I/O handles the firmware enumerates
MaxRuns == 2        \* times ACPI discovery is run when it is run again

\* ------------------------------------------------------ program constants
MM_BASE == 1280                 \* 0x500
MM_SIZE == 19200                \* 0x4B00
VBE_BASE == 20992               \* 0x5200
PT_BASE == 458752               \* 0x70000
KERNEL_PHYSICAL == 1048576      \* 0x100000
STACK_PHYSICAL == 524288        \* 0x80000
STACK_SIZE == 126976            \* 0x1F000
PHYSICAL_OFFSET_HI == 131071    \* 0xFFFF800000000000 >> 47
MEMORY_AREA_NULL == 0
MEMORY_AREA_FREE == 1
MEMORY_AREA_RESERVED == 2
PageSize == 4096
RsdpSize == 36                  \* size_of::<Rsdp>() of the packed struct
BaseLen == 20                   \* bytes covered by the ACPI 1.0 checksum
Align == 8
MbrLinux == 131                 \* 0x83
SizeOfMemoryDescriptor == 40    \* size_of::<MemoryDescriptor>()
SizeOfMemoryArea == 24          \* size_of::<MemoryArea>(), packed

\* A 64-bit address hi * 2^47 + lo; every lo of the model is below 2^31.
Addr(hi, lo) == [hi |-> hi, lo |-> lo]
STACK_VIRTUAL == Addr(PHYSICAL_OFFSET_HI, STACK_PHYSICAL)

\* A 64-bit address hi * 2^47 + g * 2^30 + lo, for addresses whose low 47 bits
\* reach beyond 2^31: g counts GiB, lo is below 2^30.
GiB == 2^30
WAddr(hi, g, lo) == [hi |-> hi, g |-> g, lo |-> lo]

\* ptr as usize as u64 + PHYSICAL_OFFSET, for a ptr below 2^47
PlusPhysicalOffset(ptr) == WAddr(ptr.hi + PHYSICAL_OFFSET_HI, ptr.g, ptr.lo)

\* Vec::as_ptr() of a Vec that never allocated: NonNull::dangling() of u8
Dangling == WAddr(0, 0, 1)
\* core::ptr::null()
Null == WAddr(0, 0, 0)

\* ------------------------------------------------------------ byte helpers
RECURSIVE SumBytes(_, _)
\* fold of u8::wrapping_add over the first n bytes
SumBytes(bytes, n) ==
    IF n = 0 THEN 0 ELSE (SumBytes(bytes, n - 1) + bytes[n]) % 256

\* the u32 stored little-endian at byte offset off (x86_64 is little-endian)
U32At(bytes, off) ==
    bytes[off + 1] + 256 * bytes[off + 2] + 65536 * bytes[off + 3]
        + 16777216 * bytes[off + 4]

\* u32::to_ne_bytes on x86_64
ToNeBytes(n) ==
    << n % 256, (n \div 256) % 256, (n \div 65536) % 256, (n \div 16777216) % 256 >>

Zeros(n) == [i \in 1..n |-> 0]

\* mutant: rounds up from len + align, so an aligned buffer grows by 8
ResizeAlignedPastBoundary(v) ==
    v \o Zeros((((Len(v) + Align) \div Align) * Align) - Len(v))

\* Vec::resize(((len + (align - 1)) / align) * align, 0)
ResizeAligned(v) ==
    v \o Zeros((((Len(v) + (Align - 1)) \div Align) * Align) - Len(v))

\* ------------------------------------------------------------ validate_rsdp
Signature == << 82, 83, 68, 32, 80, 84, 82, 32 >>      \* b"RSD PTR "
RevisionOff == 15
LengthOff == 20

Invalid == [ok |-> FALSE, length |-> 0]
Ok(length) == [ok |-> TRUE, length |-> length]

\* the bytes the extended checksum is summed over
ExtendedBytes(mem) == SubSeq(mem, 1, RsdpSize)

\* mem: the bytes of physical memory starting at the candidate's address
validate_rsdp(mem, v2) ==
    LET rsdp_bytes == SubSeq(mem, 1, RsdpSize)
        revision == rsdp_bytes[RevisionOff + 1]
        length == U32At(rsdp_bytes, LengthOff)
        ext == ExtendedBytes(mem)
    IN  IF SubSeq(rsdp_bytes, 1, 8) # Signature THEN Invalid
        ELSE IF SumBytes(rsdp_bytes, BaseLen) # 0 THEN Invalid
        ELSE IF revision = 2 /\ SumBytes(ext, Len(ext)) # 0 THEN Invalid
        ELSE Ok(IF revision = 2 THEN length ELSE RsdpSize)

\* ------------------------------------------------- find_acpi_table_pointers
AcpiKinds == {"Acpi", "Acpi2"}

RECURSIVE FindMap(_, _)
\* Iterator::find_map over the configuration tables: the first entry of an
\* ACPI kind as (memory at VendorTable, v2), or nothing
FindMap(cfg, i) ==
    IF i > Len(cfg) THEN << >>
    ELSE IF cfg[i].kind = "Acpi" THEN << [mem |-> cfg[i].mem, v2 |-> FALSE] >>
    ELSE IF cfg[i].kind = "Acpi2" THEN << [mem |-> cfg[i].mem, v2 |-> TRUE] >>
    ELSE FindMap(cfg, i + 1)

\* mutant: the area of the previous call is kept
KeepArea(old) == old

\* RSDPS_AREA = Some(Vec::new())
FreshArea(old) == << >>

\* one frame appended to the area
Frame(area, mem, length) ==
    ResizeAligned(area \o ToNeBytes(length) \o SubSeq(mem, 1, length))

\* mutant: a candidate is captured whether or not it validates
find_acpi_unvalidated(old, cfg) ==
    LET found == FindMap(cfg, 1)
    IN  IF found = << >> THEN << >>
        ELSE ResizeAligned(ToNeBytes(RsdpSize) \o SubSeq(found[1].mem, 1, RsdpSize))

\* the content of RSDPS_AREA when the function returns; old is its content
\* (empty for None) when the function is called
find_acpi_table_pointers(old, cfg) ==
    LET found == FindMap(cfg, 1)
        area == FreshArea(old)
    IN  IF found = << >> THEN area
        ELSE LET r == validate_rsdp(found[1].mem, found[1].v2)
             IN  IF r.ok THEN Frame(area, found[1].mem, r.length) ELSE area

\* --------------------------------------------------------------- memory_map
EfiLoaderCode == 1
EfiLoaderData == 2
EfiBootServicesCode == 3
EfiBootServicesData == 4
EfiConventionalMemory == 7
EfiMaxMemoryType == 14
OemMemoryType == 1879048192     \* 0x70000000, first OEM-reserved type of UEFI

\* the discriminants of the enum uefi::memory::MemoryType
MemoryTypeValues == 0..EfiMaxMemoryType

\* mem::transmute(descriptor.Type): the enum value for a discriminant of the
\* enum; for any other u32 the behaviour is undefined and the match below may
\* take either arm, so every enum value stands for an outcome
Transmute(ty) == IF ty \in MemoryTypeValues THEN {ty} ELSE MemoryTypeValues

\* the match on descriptor_type
BiosType(descriptor_type) ==
    IF descriptor_type \in {EfiLoaderCode, EfiLoaderData, EfiBootServicesCode,
                            EfiBootServicesData, EfiConventionalMemory}
    THEN MEMORY_AREA_FREE
    ELSE MEMORY_AREA_RESERVED

BiosTypes(ty) == {BiosType(t) : t \in Transmute(ty)}

ZeroDescriptor == [Type |-> 0, PhysicalStart |-> 0, NumberOfPages |-> 0]

\* the firmware's map: descriptors laid out dsize bytes apart in the zeroed
\* 65536-byte scratch buffer; map_size is what GetMemoryMap reports
MapSize(map) == Len(map.descs) * map.dsize

\* the stride of the loop: byte offset of descriptor i
DescriptorOffset(i, descriptor_size) == i * descriptor_size

\* the MemoryDescriptor read at byte offset off of the scratch buffer
DescriptorAt(map, off) ==
    IF map.dsize > 0 /\ off % map.dsize = 0 /\ off \div map.dsize < Len(map.descs)
    THEN map.descs[(off \div map.dsize) + 1]
    ELSE ZeroDescriptor

\* mutant: the descriptor size is not checked
AreaCountUnchecked(map) == MapSize(map) \div map.dsize

\* number of loop iterations; 0 when the descriptor size is too small
AreaCount(map) ==
    IF map.dsize >= SizeOfMemoryDescriptor THEN MapSize(map) \div map.dsize ELSE 0

\* length: descriptor.NumberOfPages * 4096 (every page count of the model keeps
\* the product far below 2^64)
MemoryArea(descriptor, bios_type) ==
    [base_addr |-> descriptor.PhysicalStart,
     length |-> descriptor.NumberOfPages * PageSize,
     type |-> bios_type,
     acpi |-> 0]

NullArea == [base_addr |-> 0, length |-> 0, type |-> MEMORY_AREA_NULL, acpi |-> 0]

\* ptr::write_bytes(MM_BASE, 0, MM_SIZE): the table is a sequence of the records
\* that are not known to be zero; every record past its end is NullArea
ZeroTable(old) == << >>

\* record j (0-based) of the table at MM_BASE
AreaAt(table, j) == IF j < Len(table) THEN table[j + 1] ELSE NullArea

\* the table after records recs were written at indices 0..Len(recs)-1
WriteAreas(table, recs) ==
    recs \o (IF Len(table) > Len(recs)
             THEN SubSeq(table, Len(recs) + 1, Len(table)) ELSE << >>)

\* the tables memory_map() can leave at MM_BASE for the firmware's map: a
\* choice of type for every descriptor whose match can take either arm
MemoryMapTables(old, map) ==
    LET n == AreaCount(map)
        desc(i) == DescriptorAt(map, DescriptorOffset(i, map.dsize))
        open == {i \in 1..n : BiosTypes(desc(i - 1).Type)
                                 = {MEMORY_AREA_FREE, MEMORY_AREA_RESERVED}}
    IN  { WriteAreas(ZeroTable(old),
                     [i \in 1..n |->
                         MemoryArea(desc(i - 1),
                                    IF i \in open THEN tys[i]
                                    ELSE CHOOSE t \in BiosTypes(desc(i - 1).Type) : TRUE)]) :
          tys \in [open -> {MEMORY_AREA_FREE, MEMORY_AREA_RESERVED}] }

\* let mut map: [u8; 65536]
ScratchSize == 65536

\* whether the records written for the map reach the mode record at VBE_BASE
ReachesVbe(map) == MM_BASE + AreaCount(map) * SizeOfMemoryArea > VBE_BASE

\* the println! calls memory_map() makes after GetMemoryMap returned: one per
\* descriptor, or one for an unknown descriptor size
PrintsAfterMap(map) ==
    IF map.dsize >= SizeOfMemoryDescriptor THEN AreaCount(map) ELSE 1

\* whether memory_map() printed to the console after GetMemoryMap returned
MemoryMapPrints(map) ==
    map.dsize < SizeOfMemoryDescriptor \/ AreaCount(map) > 0

\* ------------------------------------------------------------------ paging
pdp_count == 6
EntriesPerTable == 512          \* page size divided by u64 size
LargePage == 2097152            \* 0x200000
PML4Kernel == 256
PML4Recursive == 511
Present == 1                    \* bit 0
Writable == 2                   \* 1 << 1
Large == 128                    \* 1 << 7

\* A u64 as three limbs, top * 2^42 + mid * 2^21 + lo: lo and mid hold 21 bits
\* each, top the upper 22; arithmetic wraps at 2^64.
TopWrap == 2^22
U64(n) == << 0, n \div LargePage, n % LargePage >>
Zero64 == << 0, 0, 0 >>

\* u64 addition
Add64(a, b) ==
    LET lo == a[3] + b[3]
        mid == a[2] + b[2] + (lo \div LargePage)
        top == a[1] + b[1] + (mid \div LargePage)
    IN  << top % TopWrap, mid % LargePage, lo % LargePage >>

RECURSIVE BitOr(_, _)
\* bitwise or of two naturals
BitOr(x, y) ==
    IF x = 0 THEN y
    ELSE IF y = 0 THEN x
    ELSE (IF x % 2 = 1 \/ y % 2 = 1 THEN 1 ELSE 0) + 2 * BitOr(x \div 2, y \div 2)

\* a | flags, for flags below 2^21
Or64(a, flags) == << a[1], a[2], BitOr(a[3], flags) >>

\* mutant: each step also adds the present bit again
AddLargePagesWithFlag(entry, k) ==
    LET lo == entry[3] + k
        mid == entry[2] + k + (lo \div LargePage)
    IN  << (entry[1] + (mid \div LargePage)) % TopWrap, mid % LargePage,
           lo % LargePage >>

\* entry after k executions of `entry += 0x200000`
AddLargePages(entry, k) ==
    LET mid == entry[2] + k
    IN  << (entry[1] + (mid \div LargePage)) % TopWrap, mid % LargePage, entry[3] >>

\* The (2 + pdp_count) pages of the tables as one sequence of u64 entries:
\* entry e of page t is element t * 512 + e + 1.
TableLen == (2 + pdp_count) * EntriesPerTable
At(mem, t, e) == mem[t * EntriesPerTable + e + 1]

\* the pages as the firmware leaves them: every entry holds fill
RawPages(fill) == [i \in 1..TableLen |-> fill]

\* mutant: nothing is zeroed
WriteBytesNothing(mem, pages) == mem

\* ptr::write_bytes(base, 0, pages * 4096)
WriteBytesZero(mem, pages) ==
    [i \in 1..TableLen |-> IF i <= pages * EntriesPerTable THEN Zero64 ELSE mem[i]]

\* the three writes into the top-level table
LinkPml4(mem, page_phys) ==
    LET pdp == Or64(Add64(page_phys, U64(4096)), BitOr(Writable, Present))
        self == Or64(page_phys, BitOr(Writable, Present))
    IN  [i \in 1..TableLen |->
            IF i = 1 \/ i = PML4Kernel + 1 THEN pdp
            ELSE IF i = PML4Recursive + 1 THEN self
            ELSE mem[i]]

\* for i in 0..pdp_count: the directory-pointer entries
LinkPdp(mem, page_phys) ==
    [i \in 1..TableLen |->
        LET e == i - 1 - EntriesPerTable
        IN  IF e >= 0 /\ e < pdp_count
            THEN Or64(Add64(Add64(page_phys, U64(8192)), U64(e * 4096)),
                      BitOr(Writable, Present))
            ELSE mem[i]]

\* for i in 0..pdp_count * 512: the directory entries, 2 MiB apart
LinkPd(mem) ==
    LET entry == U64(BitOr(Large, BitOr(Writable, Present)))
    IN  [i \in 1..TableLen |->
            LET k == i - 1 - 2 * EntriesPerTable
            IN  IF k >= 0 /\ k < pdp_count * EntriesPerTable
                THEN AddLargePages(entry, k)
                ELSE mem[i]]

\* the tables built at page_phys in memory mem, zeroed pages first
BuildTables(mem, page_phys, zeroed) ==
    LinkPd(LinkPdp(LinkPml4(WriteBytesZero(mem, zeroed), page_phys), page_phys))

\* paging() of the fixed-address generation: the tables are built at PT_BASE
\* after 6 pages were zeroed there
paging_tables == [base |-> U64(PT_BASE), zeroed |-> 6]

\* mutant: the status of AllocatePages is not looked at
paging_create_any_status(fw) ==
    [ok |-> TRUE, status |-> "Success", page_phys |-> fw.base,
     pages |-> 2 + pdp_count, type |-> "EfiRuntimeServicesData",
     built |-> TRUE, zeroed |-> 2 + pdp_count]

\* paging_create(): what it asks of AllocatePages, what it returns, and
\* whether it built tables at the address returned, after zeroing how many
\* pages; fw is what the firmware answers
paging_create(fw) ==
    IF fw.status # "Success"
    THEN [ok |-> FALSE, status |-> fw.status, page_phys |-> Zero64,
          pages |-> 2 + pdp_count, type |-> "EfiRuntimeServicesData",
          built |-> FALSE, zeroed |-> 0]
    ELSE [ok |-> TRUE, status |-> "Success", page_phys |-> fw.base,
          pages |-> 2 + pdp_count, type |-> "EfiRuntimeServicesData",
          built |-> TRUE, zeroed |-> 2 + pdp_count]

\* mutant: paging is switched on before the table root is loaded
AfterRegisterCr0First(r) ==
    CASE r = "cr4" -> "paging_efer"
      [] r = "efer" -> "paging_cr0"
      [] r = "cr0" -> "paging_cr3"
      [] r = "cr3" -> "stack"

\* the statement that follows the write of register r
AfterRegister(r) ==
    CASE r = "cr4" -> "paging_efer"
      [] r = "efer" -> "paging_cr3"
      [] r = "cr3" -> "paging_cr0"
      [] r = "cr0" -> "stack"

\* the bits the activation sets
Cr4Bits == {"OSXSAVE", "SSE", "PGE", "PAE", "PSE"}
EferBits == {"LME", "NXE"}
Cr0Bits == {"PG", "WP", "PE"}

\* ----------------------------------------------------- get_correct_block_io
\* mutant: the system-partition flag is not looked at
ExamineIgnoringSys(h) ==
    IF ~h.bio_ok THEN "err"
    ELSE IF ~h.logical THEN "skip"
    ELSE IF ~h.part_ok THEN "err"
    ELSE IF ~h.rev_ok THEN "panic"
    ELSE IF h.ty = "Gpt"
         THEN IF h.guid = "ESP" THEN "panic"
              ELSE IF h.guid = "REDOX_FS" \/ h.guid = "LINUX_FS" THEN "select"
              ELSE "skip"
    ELSE IF h.ty = "Mbr"
         THEN IF h.mbr_ty = MbrLinux THEN "select" ELSE "skip"
    ELSE "skip"

\* mutant: the ESP type GUID is taken for a bootable one
ExamineTakingEsp(h) ==
    IF ~h.bio_ok THEN "err"
    ELSE IF ~h.logical THEN "skip"
    ELSE IF ~h.part_ok THEN "err"
    ELSE IF h.sys = 1 THEN "skip"
    ELSE IF ~h.rev_ok THEN "panic"
    ELSE IF h.ty = "Gpt"
         THEN IF h.guid \in {"ESP", "REDOX_FS", "LINUX_FS"} THEN "select"
              ELSE "skip"
    ELSE IF h.ty = "Mbr"
         THEN IF h.mbr_ty = MbrLinux THEN "select" ELSE "skip"
    ELSE "skip"

\* what the loop body does with one handle
Examine(h) ==
    IF ~h.bio_ok THEN "err"                       \* Disk::handle_protocol(..)?
    ELSE IF ~h.logical THEN "skip"
    ELSE IF ~h.part_ok THEN "err"                 \* PartitionProto::handle_protocol(..)?
    ELSE IF h.sys = 1 THEN "skip"
    ELSE IF ~h.rev_ok THEN "panic"                \* assert_eq!(rev, REVISION)
    ELSE IF h.ty = "Gpt"
         THEN IF h.guid = "ESP" THEN "panic"      \* assert_ne!(.., ESP_GUID)
              ELSE IF h.guid = "REDOX_FS" \/ h.guid = "LINUX_FS" THEN "select"
              ELSE "skip"
    ELSE IF h.ty = "Mbr"
         THEN IF h.mbr_ty = MbrLinux THEN "select" ELSE "skip"
    ELSE "skip"

RECURSIVE ScanHandles(_, _)
\* the for loop from handle i on: how the function ends, the handle it
\* returns, and the number of handles it examined
ScanHandles(hs, i) ==
    IF i > Len(hs) THEN [kind |-> "panic", idx |-> 0, examined |-> Len(hs)]
    ELSE LET e == Examine(hs[i])
         IN  IF e = "skip" THEN ScanHandles(hs, i + 1)
             ELSE IF e = "select" THEN [kind |-> "ok", idx |-> i, examined |-> i]
             ELSE [kind |-> e, idx |-> 0, examined |-> i]

\* LocateHandle fails with NotFound when no handle supports block I/O
get_correct_block_io(hs) ==
    IF Len(hs) = 0 THEN [kind |-> "err", idx |-> 0, examined |-> 0]
    ELSE ScanHandles(hs, 1)

\* ------------------------------------------------------------ the read loop
MB == 1048576
BufferLen == 4 * MB             \* vec![0; 4 * MB]
EntryOffset == 24               \* 0x18
EntrySize == 8                  \* size of the u64 read there

Min(a, b) == IF a < b THEN a ELSE b

RECURSIVE SumCounts(_, _)
\* bytes delivered by the first n reads: the cursor of the open file
SumCounts(reads, n) == IF n = 0 THEN 0 ELSE SumCounts(reads, n - 1) + reads[n]

\* The bytes one read at offset off delivers into a buffer of buf_len bytes:
\* the source holds image.avail bytes, whatever length it advertises.
SourceRead(image, off, buf_len) ==
    Min(buf_len, IF off < image.avail THEN image.avail - off ELSE 0)

\* mutant: every read_node starts at the beginning of the node
ReadOffsetZero(kernel_len) == 0

\* the offset handed to read_node: kernel.len() as u64
ReadOffset(kernel_len) == kernel_len

\* mutant: a read that does not fill the buffer ends the loop
LoopBreaksOnShortRead(count) == count < BufferLen

\* if count == 0 { break; }
LoopBreaks(count) == count = 0

\* kernel.extend(&buf[.. count]): the buffer as the extents of the source it
\* holds, in the order they were appended
Extend(kernel, off, count) ==
    [len |-> kernel.len + count,
     exts |-> Append(kernel.exts, [off |-> off, n |-> count])]

\* One pass of the loop body with a read at offset off. The percentage is
\* kernel.len() * 100 / len, a division that panics when len is 0.
ReadIteration(kernel, len, image, off) ==
    IF len = 0 THEN [kind |-> "panic", count |-> 0, kernel |-> kernel]
    ELSE LET count == SourceRead(image, off, BufferLen)
         IN  IF LoopBreaks(count)
             THEN [kind |-> "break", count |-> count, kernel |-> kernel]
             ELSE [kind |-> "more", count |-> count, kernel |-> Extend(kernel, off, count)]

\* values a read past the end of the buffer can produce
UndefinedEntries == {0, 57005}

\* *(kernel.as_ptr().offset(0x18) as *const u64): the entry field of the image
\* when the buffer holds it; a read past the end of the buffer is undefined
EntryField(kernel, image) ==
    IF /\ kernel.len >= EntryOffset + EntrySize
       /\ kernel.exts[1].off = 0
       /\ kernel.exts[1].n >= EntryOffset + EntrySize
    THEN {image.entry}
    ELSE UndefinedEntries

\* ------------------------------------------------- the firmware's side
\* An RSDP-shaped region of MemSpan bytes: the 36-byte structure followed by
\* the bytes that lie after it in memory. chksum and extended_chksum make the
\* 20-byte and 36-byte sums zero, then are moved off by base_adj and ext_adj.
\* ------------------------------------------------- the environment string
HexDigits ==
    << "0", "1", "2", "3", "4", "5", "6", "7", "8", "9", "a", "b", "c", "d", "e", "f" >>

\* "{:>02x}" of a u8: two lower-case hex digits, zero-padded
Hex2(b) == << HexDigits[(b \div 16) + 1], HexDigits[(b % 16) + 1] >>

\* four hex digits of a 16-bit word
Hex4(w) == Hex2(w \div 256) \o Hex2(w % 256)

\* "{:016x}" of a u64 given as its four 16-bit words, most significant first
Hex16(block) == Hex4(block[1]) \o Hex4(block[2]) \o Hex4(block[3]) \o Hex4(block[4])

RECURSIVE UuidText(_, _)
\* the loop over the uuid's bytes from index i: a dash before bytes 4, 6, 8, 10
UuidText(uuid, i) ==
    IF i >= Len(uuid) THEN << >>
    ELSE (IF i \in {4, 6, 8, 10} THEN << "-" >> ELSE << >>)
         \o Hex2(uuid[i + 1]) \o UuidText(uuid, i + 1)

BlockLabel == << "R", "E", "D", "O", "X", "F", "S", "_", "B", "L", "O", "C", "K", "=" >>
UuidLabel == << "R", "E", "D", "O", "X", "F", "S", "_", "U", "U", "I", "D", "=" >>

\* the environment string the RedoxFS branch formats
RedoxfsEnv(fs) ==
    BlockLabel \o Hex16(fs.block) \o << "\n" >> \o UuidLabel \o UuidText(fs.uuid, 0)

MemSpan == 40

RsdpBody(sig0, rev, len, chk, ext, tail) ==
    << sig0, 83, 68, 32, 80, 84, 82, 32 >>          \* signature
    \o << chk >>                                    \* chksum
    \o << 66, 79, 67, 72, 83, 32 >>                 \* oem_id
    \o << rev >>                                    \* revision
    \o << 0, 16, 254, 7 >>                          \* rsdt_addr
    \o ToNeBytes(len)                               \* length
    \o << 0, 32, 254, 7, 0, 0, 0, 0 >>              \* xsdt_addr
    \o << ext >>                                    \* extended_chksum
    \o << 0, 0, 0 >>                                \* _rsvd
    \o << tail >> \o Zeros(MemSpan - RsdpSize - 1)  \* memory after the structure

MkRsdp(sig0, rev, len, tail, base_adj, ext_adj) ==
    LET chk == ((256 - SumBytes(RsdpBody(sig0, rev, len, 0, 0, tail), BaseLen))
                + base_adj) % 256
        ext == ((256 - SumBytes(RsdpBody(sig0, rev, len, chk, 0, tail), RsdpSize))
                + ext_adj) % 256
    IN  RsdpBody(sig0, rev, len, chk, ext, tail)

\* every structure the validation is tried on
RsdpCandidates ==
    { MkRsdp(sig0, rev, len, tail, ba, ea) :
        sig0 \in {82, 83}, rev \in {0, 2}, len \in {20, 36, 40},
        tail \in {0, 7}, ba \in {0, 1}, ea \in {0, 1} }

ValidV1 == MkRsdp(82, 0, 0, 0, 0, 1)
ValidV2 == MkRsdp(82, 2, 36, 0, 0, 0)
LongV2 == MkRsdp(82, 2, 40, 7, 0, 0)
BadSumV2 == MkRsdp(82, 2, 36, 0, 1, 0)

\* the structures configuration-table lists are built from
RsdpFew == {ValidV1, ValidV2, LongV2, BadSumV2}

CfgEntries(structs) ==
    [kind : AcpiKinds, mem : structs] \cup {[kind |-> "Other", mem |-> Zeros(MemSpan)]}

RECURSIVE SeqsUpTo(_, _)
\* the sequences over S of length at most n
SeqsUpTo(S, n) ==
    IF n = 0 THEN {<< >>}
    ELSE LET shorter == SeqsUpTo(S, n - 1)
         IN  shorter \cup {Append(q, x) : q \in shorter, x \in S}

\* memory maps
DescriptorKinds ==
    { [Type |-> t, PhysicalStart |-> a, NumberOfPages |-> a \div PageSize + 1] :
        t \in {0, EfiLoaderCode, EfiLoaderData, EfiBootServicesCode,
               EfiBootServicesData, EfiConventionalMemory, 9, OemMemoryType},
        a \in {0, KERNEL_PHYSICAL} }

DescriptorSizes == {SizeOfMemoryDescriptor - 8, SizeOfMemoryDescriptor,
                    SizeOfMemoryDescriptor + 8}

FwMaps(kinds) == [dsize : DescriptorSizes, descs : SeqsUpTo(kinds, MaxDesc)]

\* block-I/O handles
Handle(bio_ok, logical, part_ok, sys, rev_ok, ty, guid, mbr_ty) ==
    [bio_ok |-> bio_ok, logical |-> logical, part_ok |-> part_ok, sys |-> sys,
     rev_ok |-> rev_ok, ty |-> ty, guid |-> guid, mbr_ty |-> mbr_ty]

WholeDisk == Handle(TRUE, FALSE, FALSE, 0, TRUE, "Other", "OTHER", 0)
NoBlockIo == Handle(FALSE, TRUE, TRUE, 0, TRUE, "Gpt", "REDOX_FS", 0)
NoPartInfo == Handle(TRUE, TRUE, FALSE, 0, TRUE, "Gpt", "REDOX_FS", 0)
SystemPart == Handle(TRUE, TRUE, TRUE, 1, TRUE, "Gpt", "ESP", 0)
SystemRedox == Handle(TRUE, TRUE, TRUE, 1, TRUE, "Gpt", "REDOX_FS", 0)
OldRevision == Handle(TRUE, TRUE, TRUE, 0, FALSE, "Gpt", "REDOX_FS", 0)
UnflaggedEsp == Handle(TRUE, TRUE, TRUE, 0, TRUE, "Gpt", "ESP", 0)
GptRedox == Handle(TRUE, TRUE, TRUE, 0, TRUE, "Gpt", "REDOX_FS", 0)
GptLinux == Handle(TRUE, TRUE, TRUE, 0, TRUE, "Gpt", "LINUX_FS", 0)
GptOther == Handle(TRUE, TRUE, TRUE, 0, TRUE, "Gpt", "OTHER", 0)
MbrLinuxPart == Handle(TRUE, TRUE, TRUE, 0, TRUE, "Mbr", "OTHER", MbrLinux)
MbrFat == Handle(TRUE, TRUE, TRUE, 0, TRUE, "Mbr", "OTHER", 11)
OtherPart == Handle(TRUE, TRUE, TRUE, 0, TRUE, "Other", "REDOX_FS", MbrLinux)
RawRedox == Handle(TRUE, FALSE, TRUE, 0, TRUE, "Gpt", "REDOX_FS", 0)

HandleKinds ==
    {WholeDisk, NoBlockIo, NoPartInfo, SystemPart, SystemRedox, OldRevision,
     UnflaggedEsp, GptRedox, GptLinux, GptOther, MbrLinuxPart, MbrFat, OtherPart,
     RawRedox}

\* ------------------------------------------------------------------- state
VARIABLES
    pc,             \* position of the boot: a step of inner(), of main(), or an end
    steps,          \* the steps of inner() completed so far, in order
    err,            \* the error inner() returned to main(), "None" if none
    fw_native,      \* firmware: how the lookup and read of the kernel file go
    fw_fs,          \* firmware: how opening and reading the RedoxFS partition go
    fw_kernel,      \* firmware: the kernel image on disk
    fw_handles,     \* firmware: the handles supporting block I/O, in order
    fw_cfg,         \* firmware: the configuration tables
    fw_map,         \* firmware: the memory map GetMemoryMap returns
    fw_key,         \* firmware: the key of its current memory map
    fw_pages,       \* firmware: AllocatePages' answer and what its pages hold
    gmm,            \* firmware: calls of GetMemoryMap, the key last handed out, and
                    \* the console writes it has served since
    boot_services,  \* firmware: "active" or "exited"
    ebs,            \* firmware: calls of ExitBootServices, last key and status
    examined,       \* get_correct_block_io: handles whose protocols were opened
    block_io,       \* get_correct_block_io: how it ended and the handle returned
    len,            \* inner: the length the source advertises, once asked
    reads,          \* inner: the byte counts the reads returned, in order
    kernel,         \* inner: the kernel buffer read
    env,            \* inner: the environment string, a sequence of characters
    env_len,        \* inner: length of the environment string
    fw_disk,        \* firmware: block and uuid of the RedoxFS partition's header
    KERNEL_SIZE,
    KERNEL_ENTRY,
    ENV_SIZE,
    copies,         \* the ptr::copy calls made: what, to which address, how long
    RSDPS_AREA,     \* Option<Vec<u8>>: [some, bytes, ptr]
    rsdp_result,    \* find_acpi_table_pointers: validate_rsdp's v2 and result, if called
    acpi_runs,      \* calls of find_acpi_table_pointers so far
    acpi_first,     \* RSDPS_AREA when the first call returned
    vbe,            \* whether VBE_BASE holds the mode record vesa() wrote
    mm_table,       \* the MemoryArea table at MM_BASE
    key,            \* inner: the map key memory_map() returned
    interrupts,     \* the interrupt flag
    cr0, cr3, cr4, efer,
    reg_writes,     \* the control registers the loader has written, in order
    alloc,          \* firmware: calls of AllocatePages, pages and type last asked
    page_phys,      \* paging_create: whether called and what it returned
    pt,             \* the page tables the loader built: where, and pages zeroed
    rsp,            \* the stack pointer, once the loader has set it
    reset,          \* firmware: the ResetSystem call received, if any
    args            \* the KernelArgs the kernel entry point was called with

vars == << pc, steps, err, fw_native, fw_fs, fw_kernel, fw_handles, fw_cfg, fw_map,
           fw_key, gmm, boot_services, ebs, examined, block_io, kernel, env_len,
           KERNEL_SIZE, KERNEL_ENTRY, ENV_SIZE, RSDPS_AREA, rsdp_result, acpi_runs,
           acpi_first, vbe, mm_table, key, interrupts, cr0, cr3, cr4, efer, rsp,
           args, fw_pages, reg_writes, alloc, page_phys, pt, len, reads,
           copies, reset, env, fw_disk >>

fw_vars == << fw_native, fw_fs, fw_kernel, fw_handles, fw_cfg, fw_map, fw_pages,
             fw_disk >>
pt_vars == << reg_writes, alloc, page_phys, pt >>

\* the entries of the pages holding the loader's tables: what the firmware
\* left there until the loader has built its tables
PtMem ==
    IF pt.built THEN BuildTables(RawPages(fw_pages.fill), pt.base, pt.zeroed)
    ELSE RawPages(fw_pages.fill)
blk_vars == << examined, block_io >>
load_vars == << kernel, env, env_len, len, reads >>
global_vars == << KERNEL_SIZE, KERNEL_ENTRY, ENV_SIZE, copies >>
acpi_vars == << RSDPS_AREA, rsdp_result, acpi_runs, acpi_first >>
map_vars == << mm_table, key, fw_key, gmm >>
cpu_vars == << interrupts, cr0, cr3, cr4, efer, rsp >>
exit_vars == << boot_services, ebs, reset >>

NoArgs ==
    [kernel_base |-> 0, kernel_size |-> 0, stack_base |-> Addr(0, 0),
     stack_size |-> 0, env_base |-> Addr(0, 0), env_size |-> 0,
     acpi_rsdps_base |-> Null, acpi_rsdps_size |-> 0]

\* what lies at MM_BASE before the loader writes there
JunkArea == [base_addr |-> 1, length |-> 1, type |-> 3, acpi |-> 1]
JunkTable == [i \in 1..(MaxDesc + 1) |-> JunkArea]

\* length of "REDOXFS_BLOCK=" 16 hex digits "\n" "REDOXFS_UUID=" 32 hex digits
\* and 4 dashes
RedoxfsEnvLen == 14 + 16 + 1 + 13 + 32 + 4

\* The state main() starts inner() in, for the firmware given. The processor is
\* in the state UEFI hands over: long mode, paged by the firmware's own tables.
InitWith(natives, fss, kernels, handle_lists, cfgs, maps, pages, disks) ==
    /\ pc = "find"
    /\ steps = << >>
    /\ err = "None"
    /\ fw_native \in natives
    /\ fw_fs \in fss
    /\ fw_kernel \in kernels
    /\ fw_handles \in handle_lists
    /\ fw_cfg \in cfgs
    /\ fw_map \in maps
    /\ fw_pages \in pages
    /\ fw_key = 1
    /\ gmm = [calls |-> 0, key |-> 0, since |-> 0]
    /\ boot_services = "active"
    /\ ebs = [calls |-> 0, key |-> 0, status |-> "None"]
    /\ reset = [called |-> FALSE, type |-> "None", status |-> "None"]
    /\ examined = 0
    /\ block_io = [kind |-> "None", idx |-> 0]
    /\ len = 0
    /\ reads = << >>
    /\ kernel = [len |-> 0, exts |-> << >>]
    /\ env = << >>
    /\ env_len = 0
    /\ fw_disk \in disks
    /\ KERNEL_SIZE = 0
    /\ KERNEL_ENTRY = 0
    /\ ENV_SIZE = 0
    /\ copies = << >>
    /\ RSDPS_AREA = [some |-> FALSE, bytes |-> << >>, ptr |-> Null]
    /\ rsdp_result = [called |-> FALSE, v2 |-> FALSE, ok |-> FALSE, length |-> 0]
    /\ acpi_runs = 0
    /\ acpi_first = << >>
    /\ vbe = FALSE
    /\ mm_table \in {<< >>, JunkTable}
    /\ key = 0
    /\ interrupts = TRUE
    /\ cr0 = {"PE", "PG"}
    /\ cr3 = [firmware |-> TRUE, base |-> Zero64]
    /\ reg_writes = << >>
    /\ alloc = [calls |-> 0, pages |-> 0, type |-> "None"]
    /\ page_phys = [called |-> FALSE, ok |-> FALSE, status |-> "None", base |-> Zero64]
    /\ pt = [built |-> FALSE, base |-> Zero64, zeroed |-> 0]
    /\ cr4 = {"PAE"}
    /\ efer = {"LME"}
    /\ rsp = [set |-> FALSE, addr |-> Addr(0, 0)]
    /\ args = NoArgs

\* a kernel image: the length the source advertises, the bytes it delivers,
\* and the u64 at offset 0x18
Image(length, avail) == [len |-> length, avail |-> avail, entry |-> KERNEL_PHYSICAL + 4096]

Kernels == {Image(4096, 4096)}

\* a small firmware: every way the boot can go, few inputs each
SmallHandleLists ==
    {<< >>, << GptRedox >>, << WholeDisk, MbrLinuxPart >>, << NoBlockIo >>,
     << UnflaggedEsp, GptRedox >>, << GptOther >>}
SmallCfgs ==
    {<< >>, << [kind |-> "Acpi2", mem |-> ValidV2] >>,
     << [kind |-> "Acpi", mem |-> BadSumV2] >>}
SmallMaps ==
    {[dsize |-> d, descs |-> q] :
        d \in {SizeOfMemoryDescriptor - 8, SizeOfMemoryDescriptor + 8},
        q \in {<< >>,
               << [Type |-> EfiConventionalMemory, PhysicalStart |-> 0,
                   NumberOfPages |-> 1] >>}}

\* RedoxFS headers: a low block number and small uuid bytes, and a block number
\* and uuid bytes with every hex digit position in use
LowDisk ==
    [block |-> << 0, 0, 0, 2048 >>,
     uuid |-> << 0, 1, 2, 3, 4, 5, 6, 7, 8, 9, 10, 11, 12, 13, 14, 15 >>]
HighDisk ==
    [block |-> << 43981, 61185, 9029, 26505 >>,
     uuid |-> << 255, 238, 221, 204, 187, 170, 153, 136, 119, 102, 85, 68, 51, 34, 17, 160 >>]
Disks == {LowDisk, HighDisk}

\* what a page holds before the loader writes to it
JunkEntry == << 1, 1, 1 >>
NoPages == [status |-> "OutOfResources", base |-> Zero64, fill |-> JunkEntry]

Init ==
    InitWith({"ok", "absent", "info_error", "read_error"}, {"ok", "open_error"},
             Kernels, SmallHandleLists, SmallCfgs, SmallMaps, {NoPages}, Disks)

\* ----------------------------------------------------------------- inner()
Done(step) == steps' = Append(steps, step)

\* find(KERNEL): the firmware-native lookup of the kernel file
FindKernel ==
    /\ pc = "find"
    /\ pc' = IF fw_native = "absent" THEN "get_block_io" ELSE "read_native"
    /\ UNCHANGED << steps, err, fw_vars, pt_vars, blk_vars, load_vars, global_vars,
                    acpi_vars, vbe, map_vars, cpu_vars, exit_vars, args >>

\* let info = kernel_file.info()?; let len = info.FileSize
NativeInfo ==
    /\ pc = "read_native"
    /\ IF fw_native = "info_error"
       THEN /\ pc' = "failed"
            /\ err' = "DeviceError"
            /\ len' = len
       ELSE /\ pc' = "native_loop"
            /\ err' = err
            /\ len' = fw_kernel.len
    /\ UNCHANGED << steps, fw_vars, pt_vars, blk_vars, kernel, env, env_len, reads,
                    global_vars, acpi_vars, vbe, map_vars, cpu_vars, exit_vars, args >>

\* one pass of the loop over kernel_file.read(&mut buf)?; after the break the
\* environment is String::new()
NativeRead ==
    /\ pc = "native_loop"
    /\ LET r == ReadIteration(kernel, len, fw_kernel, SumCounts(reads, Len(reads)))
       IN  IF r.kind = "panic"
           THEN /\ pc' = "panicked"
                /\ UNCHANGED << err, kernel, env, env_len, reads >>
           ELSE IF fw_native = "read_error"
           THEN /\ pc' = "failed"
                /\ err' = "DeviceError"
                /\ UNCHANGED << kernel, env, env_len, reads >>
           ELSE /\ reads' = Append(reads, r.count)
                /\ kernel' = r.kernel
                /\ env' = << >>
                /\ env_len' = 0
                /\ pc' = IF r.kind = "break" THEN "copy_kernel" ELSE pc
                /\ err' = err
    /\ UNCHANGED << steps, fw_vars, pt_vars, blk_vars, len, global_vars, acpi_vars,
                    vbe, map_vars, cpu_vars, exit_vars, args >>

\* redoxfs(): get_correct_block_io()?
GetCorrectBlockIo ==
    /\ pc = "get_block_io"
    /\ LET r == get_correct_block_io(fw_handles)
       IN  /\ examined' = r.examined
           /\ block_io' = [kind |-> r.kind, idx |-> r.idx]
           /\ pc' = CASE r.kind = "ok" -> "open_fs"
                      [] r.kind = "err" -> "failed"
                      [] OTHER -> "panicked"
           /\ err' = IF r.kind = "err"
                     THEN (IF Len(fw_handles) = 0 THEN "NotFound" ELSE "Unsupported")
                     ELSE err
    /\ UNCHANGED << steps, fw_vars, pt_vars, load_vars, global_vars, acpi_vars, vbe,
                    map_vars, cpu_vars, exit_vars, args >>

\* FileSystem::open(..)?, find_node("kernel", root)?, let len = node_len(..)?
OpenFs ==
    /\ pc = "open_fs"
    /\ IF fw_fs = "open_error"
       THEN /\ pc' = "failed"
            /\ err' = "DeviceError"
            /\ len' = len
       ELSE /\ pc' = "fs_loop"
            /\ err' = err
            /\ len' = fw_kernel.len
    /\ UNCHANGED << steps, fw_vars, pt_vars, blk_vars, kernel, env, env_len, reads,
                    global_vars, acpi_vars, vbe, map_vars, cpu_vars, exit_vars, args >>

\* one pass of the loop over fs.read_node(node.0, kernel.len() as u64, &mut buf)?;
\* after the break the environment string is formatted
FsRead ==
    /\ pc = "fs_loop"
    /\ LET r == ReadIteration(kernel, len, fw_kernel, ReadOffset(kernel.len))
       IN  IF r.kind = "panic"
           THEN /\ pc' = "panicked"
                /\ UNCHANGED << err, kernel, env, env_len, reads >>
           ELSE IF fw_fs = "read_error"
           THEN /\ pc' = "failed"
                /\ err' = "DeviceError"
                /\ UNCHANGED << kernel, env, env_len, reads >>
           ELSE /\ reads' = Append(reads, r.count)
                /\ kernel' = r.kernel
                /\ env' = IF r.kind = "break" THEN RedoxfsEnv(fw_disk) ELSE env
                /\ env_len' = IF r.kind = "break" THEN Len(RedoxfsEnv(fw_disk)) ELSE env_len
                /\ pc' = IF r.kind = "break" THEN "copy_kernel" ELSE pc
                /\ err' = err
    /\ UNCHANGED << steps, fw_vars, pt_vars, blk_vars, len, global_vars, acpi_vars,
                    vbe, map_vars, cpu_vars, exit_vars, args >>

\* "Copying Kernel...": KERNEL_SIZE, KERNEL_ENTRY, ptr::copy to KERNEL_PHYSICAL
CopyKernel ==
    /\ pc = "copy_kernel"
    /\ KERNEL_SIZE' = kernel.len
    /\ KERNEL_ENTRY' \in EntryField(kernel, fw_kernel)
    /\ copies' = Append(copies, [src |-> "kernel", dst |-> KERNEL_PHYSICAL,
                                 n |-> kernel.len])
    /\ Done("copy_kernel")
    /\ pc' = "copy_env"
    /\ UNCHANGED << err, fw_vars, pt_vars, blk_vars, load_vars, ENV_SIZE, acpi_vars, vbe,
                    map_vars, cpu_vars, exit_vars, args >>

\* "Copying Environment...": ENV_SIZE, ptr::copy to STACK_PHYSICAL
CopyEnv ==
    /\ pc = "copy_env"
    /\ ENV_SIZE' = env_len
    /\ copies' = Append(copies, [src |-> "env", dst |-> STACK_PHYSICAL, n |-> env_len])
    /\ Done("copy_env")
    /\ pc' = "acpi"
    /\ UNCHANGED << err, fw_vars, pt_vars, blk_vars, load_vars, KERNEL_SIZE, KERNEL_ENTRY,
                    acpi_vars, vbe, map_vars, cpu_vars, exit_vars, args >>

\* where the firmware's pool allocator can place the Vec's buffer: low memory,
\* the last page below 6 GiB, and 6 GiB
HeapAddrs == {WAddr(0, 1, 4096), WAddr(0, 5, GiB - 4096), WAddr(0, 6, 0)}

\* one call of find_acpi_table_pointers(); the buffer of a Vec that was
\* extended lies where the allocator put it
CallFindAcpi ==
    LET found == FindMap(fw_cfg, 1)
        bytes == find_acpi_table_pointers(RSDPS_AREA.bytes, fw_cfg)
    IN  /\ \E p \in (IF bytes = << >> THEN {Dangling} ELSE HeapAddrs) :
               RSDPS_AREA' = [some |-> TRUE, bytes |-> bytes, ptr |-> p]
        /\ rsdp_result' =
             IF found = << >>
             THEN [called |-> FALSE, v2 |-> FALSE, ok |-> FALSE, length |-> 0]
             ELSE LET r == validate_rsdp(found[1].mem, found[1].v2)
                  IN  [called |-> TRUE, v2 |-> found[1].v2, ok |-> r.ok,
                       length |-> r.length]
        /\ acpi_runs' = acpi_runs + 1
        /\ acpi_first' = IF acpi_runs = 0 THEN bytes ELSE acpi_first

\* find_acpi_table_pointers(); its Result is dropped
FindAcpi ==
    /\ pc = "acpi"
    /\ CallFindAcpi
    /\ Done("acpi")
    /\ pc' = "vesa"
    /\ UNCHANGED << err, fw_vars, pt_vars, blk_vars, load_vars, global_vars, vbe, map_vars,
                    cpu_vars, exit_vars, args >>

\* vesa(): the mode record written at VBE_BASE
Vesa ==
    /\ pc = "vesa"
    /\ vbe' = TRUE
    /\ Done("vesa")
    /\ pc' = "memory_map"
    /\ UNCHANGED << err, fw_vars, pt_vars, blk_vars, load_vars, global_vars, acpi_vars,
                    map_vars, cpu_vars, exit_vars, args >>

\* the key memory_map() returns: the map_key GetMemoryMap stored
ReturnedKey(map_key) == map_key

\* let key = memory_map(): the table is zeroed and rewritten; a console write
\* after GetMemoryMap is a boot-service call that may change the firmware's map
\* and with it the firmware's key
MemoryMap ==
    /\ pc = "memory_map"
    /\ mm_table' \in MemoryMapTables(mm_table, fw_map)
    /\ gmm' = [calls |-> gmm.calls + 1, key |-> fw_key,
               since |-> PrintsAfterMap(fw_map)]
    /\ key' = ReturnedKey(fw_key)
    /\ fw_key' \in IF MemoryMapPrints(fw_map) THEN {fw_key, fw_key + 1} ELSE {fw_key}
    /\ vbe' = (vbe /\ ~ReachesVbe(fw_map))
    /\ Done("memory_map")
    /\ pc' = "exit_boot_services"
    /\ UNCHANGED << err, fw_vars, pt_vars, blk_vars, load_vars, global_vars, acpi_vars,
                    cpu_vars, exit_vars, args >>

\* the firmware's ExitBootServices(handle, key)
FirmwareExit(k) == IF k = fw_key THEN "Success" ELSE "InvalidParameter"

\* mutant: interrupts are left enabled
AfterExitSkippingCli(status) == "paging"

\* where inner() goes with the status ExitBootServices returned: `let _ =`
AfterExit(status) == "cli"

\* exit_boot_services(key)
ExitBootServices ==
    /\ pc = "exit_boot_services"
    /\ LET status == FirmwareExit(key)
       IN  /\ ebs' = [calls |-> ebs.calls + 1, key |-> key, status |-> status]
           /\ boot_services' = IF status = "Success" THEN "exited" ELSE boot_services
           /\ pc' = AfterExit(status)
    /\ Done("exit_boot_services")
    /\ UNCHANGED << err, fw_vars, pt_vars, blk_vars, load_vars, global_vars, acpi_vars, vbe,
                    map_vars, cpu_vars, args, reset >>

\* cli
Cli ==
    /\ pc = "cli"
    /\ interrupts' = FALSE
    /\ Done("cli")
    /\ pc' = "paging"
    /\ UNCHANGED << err, fw_vars, pt_vars, blk_vars, load_vars, global_vars, acpi_vars, vbe,
                    map_vars, cr0, cr3, cr4, efer, rsp, exit_vars, args >>

\* paging(): the tables are built at PT_BASE
PagingTables ==
    /\ pc = "paging"
    /\ pt' = [built |-> TRUE, base |-> paging_tables.base, zeroed |-> paging_tables.zeroed]
    /\ pc' = "paging_cr4"
    /\ UNCHANGED << steps, err, fw_vars, blk_vars, load_vars, global_vars, acpi_vars,
                    vbe, map_vars, cpu_vars, exit_vars, args, reg_writes, alloc,
                    page_phys >>

\* cr4 |= OSXSAVE | SSE | GLOBAL_PAGES | PAE | PSE
PagingCr4 ==
    /\ pc = "paging_cr4"
    /\ cr4' = cr4 \cup Cr4Bits
    /\ reg_writes' = Append(reg_writes, "cr4")
    /\ pc' = AfterRegister("cr4")
    /\ UNCHANGED << steps, err, fw_vars, blk_vars, load_vars, global_vars, acpi_vars,
                    vbe, map_vars, interrupts, cr0, cr3, efer, rsp, exit_vars, args,
                    alloc, page_phys, pt >>

\* efer |= 1 << 11 | 1 << 8
PagingEfer ==
    /\ pc = "paging_efer"
    /\ efer' = efer \cup EferBits
    /\ reg_writes' = Append(reg_writes, "efer")
    /\ pc' = AfterRegister("efer")
    /\ UNCHANGED << steps, err, fw_vars, blk_vars, load_vars, global_vars, acpi_vars,
                    vbe, map_vars, interrupts, cr0, cr3, cr4, rsp, exit_vars, args,
                    alloc, page_phys, pt >>

\* cr3_write(base of the top-level table)
PagingCr3 ==
    /\ pc = "paging_cr3"
    /\ cr3' = [firmware |-> FALSE, base |-> pt.base]
    /\ reg_writes' = Append(reg_writes, "cr3")
    /\ pc' = AfterRegister("cr3")
    /\ UNCHANGED << steps, err, fw_vars, blk_vars, load_vars, global_vars, acpi_vars,
                    vbe, map_vars, interrupts, cr0, cr4, efer, rsp, exit_vars, args,
                    alloc, page_phys, pt >>

\* cr0 |= PAGING | WRITE_PROTECT | PROTECTED_MODE
PagingCr0 ==
    /\ pc = "paging_cr0"
    /\ cr0' = cr0 \cup Cr0Bits
    /\ reg_writes' = Append(reg_writes, "cr0")
    /\ Done("paging")
    /\ pc' = AfterRegister("cr0")
    /\ UNCHANGED << err, fw_vars, blk_vars, load_vars, global_vars, acpi_vars, vbe,
                    map_vars, interrupts, cr3, cr4, efer, rsp, exit_vars, args,
                    alloc, page_phys, pt >>

\* mov rsp, STACK_VIRTUAL + STACK_SIZE
SwitchStack ==
    /\ pc = "stack"
    /\ rsp' = [set |-> TRUE,
               addr |-> Addr(STACK_VIRTUAL.hi, STACK_VIRTUAL.lo + STACK_SIZE)]
    /\ Done("stack")
    /\ pc' = "enter"
    /\ UNCHANGED << err, fw_vars, pt_vars, blk_vars, load_vars, global_vars, acpi_vars, vbe,
                    map_vars, interrupts, cr0, cr3, cr4, efer, exit_vars, args >>

\* mutant: the environment is announced at the kernel's address
KernelArgsEnvAtKernel(kernel_size, env_size, rsdps_area) ==
    [kernel_base |-> KERNEL_PHYSICAL,
     kernel_size |-> kernel_size,
     stack_base |-> STACK_VIRTUAL,
     stack_size |-> STACK_SIZE,
     env_base |-> Addr(PHYSICAL_OFFSET_HI, KERNEL_PHYSICAL),
     env_size |-> env_size,
     acpi_rsdps_base |-> PlusPhysicalOffset(IF rsdps_area.some THEN rsdps_area.ptr
                                            ELSE Null),
     acpi_rsdps_size |-> IF rsdps_area.some THEN Len(rsdps_area.bytes) ELSE 0]

\* let args = KernelArgs { .. } from the statics
KernelArgsOf(kernel_size, env_size, rsdps_area) ==
    [kernel_base |-> KERNEL_PHYSICAL,
     kernel_size |-> kernel_size,
     stack_base |-> STACK_VIRTUAL,
     stack_size |-> STACK_SIZE,
     env_base |-> STACK_VIRTUAL,
     env_size |-> env_size,
     acpi_rsdps_base |-> PlusPhysicalOffset(IF rsdps_area.some THEN rsdps_area.ptr
                                            ELSE Null),
     acpi_rsdps_size |-> IF rsdps_area.some THEN Len(rsdps_area.bytes) ELSE 0]

\* enter(): the KernelArgs are built and the entry point is called
Enter ==
    /\ pc = "enter"
    /\ args' = KernelArgsOf(KERNEL_SIZE, ENV_SIZE, RSDPS_AREA)
    /\ Done("enter")
    /\ pc' = "entered"
    /\ UNCHANGED << err, fw_vars, pt_vars, blk_vars, load_vars, global_vars, acpi_vars, vbe,
                    map_vars, cpu_vars, exit_vars >>

\* ------------------------------------------------------------------ main()
\* println!("App error: {:?}", err)
ReportError ==
    /\ pc = "failed"
    /\ pc' = "wait_key"
    /\ UNCHANGED << steps, err, fw_vars, pt_vars, blk_vars, load_vars, global_vars,
                    acpi_vars, vbe, map_vars, cpu_vars, exit_vars, args >>

\* let _ = key::key(true)
WaitKey ==
    /\ pc = "wait_key"
    /\ pc' = "reset_system"
    /\ UNCHANGED << steps, err, fw_vars, pt_vars, blk_vars, load_vars, global_vars,
                    acpi_vars, vbe, map_vars, cpu_vars, exit_vars, args >>

\* the status main() hands to ResetSystem: Status(0), whatever inner() returned
ResetStatus(e) == "Success"

\* ResetSystem(ResetType::Cold, Status(0), 0, null): the firmware does not return
ResetSystem ==
    /\ pc = "reset_system"
    /\ reset' = [called |-> TRUE, type |-> "Cold", status |-> ResetStatus(err)]
    /\ pc' = "reset"
    /\ UNCHANGED << steps, err, fw_vars, pt_vars, blk_vars, load_vars, global_vars,
                    acpi_vars, vbe, map_vars, cpu_vars, boot_services, ebs, args >>

Next ==
    \/ FindKernel
    \/ NativeInfo
    \/ NativeRead
    \/ GetCorrectBlockIo
    \/ OpenFs
    \/ FsRead
    \/ CopyKernel
    \/ CopyEnv
    \/ FindAcpi
    \/ Vesa
    \/ MemoryMap
    \/ ExitBootServices
    \/ Cli
    \/ PagingTables
    \/ PagingCr4
    \/ PagingEfer
    \/ PagingCr3
    \/ PagingCr0
    \/ SwitchStack
    \/ Enter
    \/ ReportError
    \/ WaitKey
    \/ ResetSystem

Spec == Init /\ [][Next]_vars

\* ------------------------------------------------ component specifications
\* The same boot, with one part of the firmware drawn from a wider set.

\* memory maps of up to MaxDesc descriptors of every kind
InitMemoryMap ==
    \/ Init
    \/ InitWith({"ok"}, {"ok"}, Kernels, {<< >>}, {<< >>}, FwMaps(DescriptorKinds),
                {NoPages}, {LowDisk})

SpecMemoryMap == InitMemoryMap /\ [][Next]_vars

\* maps of many descriptors that fit the scratch buffer: as many as the table
\* at MM_BASE holds, one more, as many as end just below VBE_BASE, one more, and
\* as many as the scratch buffer holds
FillDescriptor == [Type |-> EfiConventionalMemory, PhysicalStart |-> 0, NumberOfPages |-> 1]
LongMaps ==
    {[dsize |-> SizeOfMemoryDescriptor, descs |-> [i \in 1..n |-> FillDescriptor]] :
        n \in {MM_SIZE \div SizeOfMemoryArea, (MM_SIZE \div SizeOfMemoryArea) + 1,
               (VBE_BASE - MM_BASE) \div SizeOfMemoryArea,
               ((VBE_BASE - MM_BASE) \div SizeOfMemoryArea) + 1,
               ScratchSize \div SizeOfMemoryDescriptor}}

InitMapSize ==
    \/ Init
    \/ InitWith({"ok"}, {"ok"}, Kernels, {<< >>}, {<< >>}, LongMaps, {NoPages}, {LowDisk})

SpecMapSize == InitMapSize /\ [][Next]_vars

\* configuration tables of up to MaxCfg entries, and every candidate structure
\* as the only entry
RichCfgs ==
    SeqsUpTo(CfgEntries(RsdpFew), MaxCfg)
        \cup { << e >> : e \in CfgEntries(RsdpCandidates) }

OneMap == [dsize |-> SizeOfMemoryDescriptor + 8, descs |-> << >>]

InitAcpi ==
    \/ Init
    \/ InitWith({"ok"}, {"ok"}, Kernels, {<< >>}, RichCfgs, {OneMap}, {NoPages}, {LowDisk})

\* find_acpi_table_pointers() called again, on the same firmware tables
RerunAcpi ==
    /\ pc = "vesa"
    /\ acpi_runs < MaxRuns
    /\ CallFindAcpi
    /\ UNCHANGED << pc, steps, err, fw_vars, pt_vars, blk_vars, load_vars, global_vars, vbe,
                    map_vars, cpu_vars, exit_vars, args >>

NextAcpi == Next \/ RerunAcpi

SpecAcpi == InitAcpi /\ [][NextAcpi]_vars

\* kernel sources: 10 MiB, one buffer exactly, one byte more than a buffer, an
\* image too short for an entry field, an empty one, one that ends before the
\* advertised length, one that delivers more than advertised
RichKernels ==
    {Image(10 * MB, 10 * MB), Image(BufferLen, BufferLen), Image(BufferLen + 1, BufferLen + 1),
     Image(16, 16), Image(0, 0), Image(10 * MB, 6 * MB), Image(4096, 8192)}

InitRead ==
    \/ Init
    \/ InitWith({"ok", "absent", "read_error"}, {"ok", "read_error"}, RichKernels,
                {<< GptRedox >>}, {<< >>}, {OneMap}, {NoPages}, {LowDisk})

SpecRead == InitRead /\ [][Next]_vars

\* what AllocatePages can answer: failure, or pages at a page-aligned address
\* (low, one whose next page starts a new 2 MiB unit, one above 4 GiB), holding
\* zeros or not
FwPages ==
    {NoPages}
        \cup [status : {"Success"},
              base : {U64(PT_BASE), U64(LargePage - 4096), << 0, 2049, 20480 >>},
              fill : {Zero64, JunkEntry}]

InitPaging ==
    \/ Init
    \/ InitWith({"ok"}, {"ok"}, Kernels, {<< >>}, {<< >>}, {OneMap}, FwPages, {LowDisk})

\* Where the boot goes with paging_create()'s Result. No caller of
\* paging_create() is part of the sources: an Err leaves inner() as its error
\* (an allocation failure is fatal), an Ok value is handed to paging_enter().
AfterCreate(ok) == IF ok THEN "paging_cr4" ELSE "failed"

\* paging_create(..), the allocating generation of the paging step
PagingCreate ==
    /\ pc = "paging"
    /\ LET r == paging_create(fw_pages)
       IN  /\ alloc' = [calls |-> alloc.calls + 1, pages |-> r.pages, type |-> r.type]
           /\ page_phys' = [called |-> TRUE, ok |-> r.ok, status |-> r.status,
                            base |-> r.page_phys]
           /\ IF r.ok
              THEN /\ pt' = [built |-> TRUE, base |-> r.page_phys, zeroed |-> r.zeroed]
                   /\ err' = err
              ELSE /\ pt' = pt
                   /\ err' = r.status
           /\ pc' = AfterCreate(r.ok)
    /\ UNCHANGED << steps, fw_vars, blk_vars, load_vars, global_vars, acpi_vars, vbe,
                    map_vars, cpu_vars, exit_vars, args, reg_writes >>

NextPaging == Next \/ PagingCreate

SpecPaging == InitPaging /\ [][NextPaging]_vars

\* handle lists of up to MaxHandles handles of every kind
InitBlockIo ==
    \/ Init
    \/ InitWith({"absent"}, {"ok"}, Kernels, SeqsUpTo(HandleKinds, MaxHandles),
                {<< >>}, {OneMap}, {NoPages}, Disks)

SpecBlockIo == InitBlockIo /\ [][Next]_vars

\* ------------------------------------------------------------------ claims
IsPrefix(a, b) == Len(a) <= Len(b) /\ a = SubSeq(b, 1, Len(a))

StepOrder ==
    << "copy_kernel", "copy_env", "acpi", "vesa", "memory_map",
       "exit_boot_services", "cli", "paging", "stack", "enter" >>

InnerSteps == {StepOrder[i] : i \in 1..Len(StepOrder)}

\* positions inside the paging step
PagingSteps == {"paging_cr4", "paging_efer", "paging_cr3", "paging_cr0"}

\* C1: every boot that reaches the kernel entry jump has done, once each and in
\* this order, kernel copy, environment copy, ACPI discovery, display capture,
\* memory-map capture, ExitBootServices with the key that capture returned,
\* cli, paging, stack switch, jump; the position is always the step after the
\* last completed one, and once the loader's tables are live only the stack
\* switch and the jump remain.
C1_StepsInOrder ==
    /\ IsPrefix(steps, StepOrder)
    /\ (pc \in InnerSteps => pc = StepOrder[Len(steps) + 1])
    /\ (pc = "entered" => steps = StepOrder)
    /\ (ebs.calls > 0 => ebs.calls = 1 /\ gmm.calls = 1 /\ ebs.key = gmm.key)
    /\ (~cr3.firmware => pc \in {"paging_cr0", "stack", "enter", "entered"})

C1_Witness == pc = "entered" /\ ebs.calls = 1 /\ ~cr3.firmware

\* C2: wherever the loader's paging is active, the stack is switched or the
\* kernel is entered, the last ExitBootServices call returned success.
C2_FailedExitIsFatal ==
    (~cr3.firmware \/ rsp.set \/ pc = "entered") => ebs.status = "Success"

\* C3: an ExitBootServices call that reports a stale key is followed by a new
\* memory-map capture (and then a new exit), not by the next step of the boot.
C3_StaleKeyRetried ==
    [][(ebs'.calls = ebs.calls + 1 /\ ebs'.status = "InvalidParameter")
         => pc' = "memory_map"]_vars

\* the record the claim gives for a descriptor
ClaimedArea(d) ==
    [base_addr |-> d.PhysicalStart,
     length |-> d.NumberOfPages * PageSize,
     type |-> IF d.Type \in {EfiLoaderCode, EfiLoaderData, EfiBootServicesCode,
                             EfiBootServicesData, EfiConventionalMemory}
              THEN MEMORY_AREA_FREE ELSE MEMORY_AREA_RESERVED,
     acpi |-> 0]

\* the last index of the table reserved at MM_BASE
LastArea == (MM_SIZE \div SizeOfMemoryArea) - 1

\* C4: with a descriptor size of at least size_of(MemoryDescriptor), record i of
\* the table is the claimed record of descriptor i (Free for the five usable
\* firmware types, Reserved for every other type), and every record after the
\* last descriptor's is zero.
C4_OneAreaPerDescriptor ==
    (gmm.calls > 0 /\ fw_map.dsize >= SizeOfMemoryDescriptor) =>
        /\ \A i \in 1..Len(fw_map.descs) :
              AreaAt(mm_table, i - 1) = ClaimedArea(fw_map.descs[i])
        /\ \A j \in Len(fw_map.descs)..LastArea : AreaAt(mm_table, j) = NullArea

\* C5: with a descriptor size below size_of(MemoryDescriptor) the whole table
\* stays zero, memory_map() returns the key GetMemoryMap handed out, and the
\* boot goes on to call ExitBootServices with that key.
C5_SmallDescriptorSize ==
    (gmm.calls > 0 /\ fw_map.dsize < SizeOfMemoryDescriptor) =>
        /\ \A j \in 0..LastArea : AreaAt(mm_table, j) = NullArea
        /\ key = gmm.key
        /\ pc \in {"exit_boot_services", "cli", "paging", "stack", "enter", "entered"}
                 \cup PagingSteps
        /\ (ebs.calls > 0 => ebs.key = gmm.key)

C5_Witness ==
    /\ fw_map.dsize < SizeOfMemoryDescriptor
    /\ Len(fw_map.descs) > 0
    /\ gmm.calls = 1
    /\ ebs.calls = 1
    /\ ebs.key = gmm.key

\* the memory at the first ACPI-kind configuration table entry
ExaminedMem == FindMap(fw_cfg, 1)[1].mem

\* validity as the claim states it: signature, 20-byte sum, and for revision 2
\* the sum over the length the structure reports
ClaimedValid(mem) ==
    /\ SubSeq(mem, 1, 8) = Signature
    /\ SumBytes(mem, BaseLen) = 0
    /\ (mem[RevisionOff + 1] = 2 => SumBytes(mem, U32At(mem, LengthOff)) = 0)

\* C6: validate_rsdp accepts the examined structure exactly when it is valid as
\* the claim states it.
C6_AcceptsIffValid ==
    rsdp_result.called => (rsdp_result.ok <=> ClaimedValid(ExaminedMem))

\* buf is one frame for the L bytes at mem: L as 4 little-endian bytes, the L
\* bytes, then the fewest zero bytes that make the length a multiple of 8
IsFrame(buf, mem, L) ==
    /\ Len(buf) % 8 = 0
    /\ Len(buf) >= 4 + L
    /\ Len(buf) < 4 + L + 8
    /\ buf[1] + 256 * buf[2] + 65536 * buf[3] + 16777216 * buf[4] = L
    /\ \A i \in 1..L : buf[4 + i] = mem[i]
    /\ \A i \in (4 + L + 1)..Len(buf) : buf[i] = 0

\* C7: when find_acpi_table_pointers() has returned, the ACPI buffer is one
\* frame for the structure validate_rsdp accepted, or empty when it accepted
\* none; its length is a multiple of 8.
C7_BufferIsFrames ==
    acpi_runs > 0 =>
        /\ RSDPS_AREA.some
        /\ Len(RSDPS_AREA.bytes) % 8 = 0
        /\ IF rsdp_result.called /\ rsdp_result.ok
           THEN IsFrame(RSDPS_AREA.bytes, ExaminedMem, rsdp_result.length)
           ELSE RSDPS_AREA.bytes = << >>

C7_Witness ==
    /\ acpi_runs > 0
    /\ rsdp_result.ok
    /\ rsdp_result.length > RsdpSize
    /\ Len(RSDPS_AREA.bytes) = 48

\* C8: after a second run of find_acpi_table_pointers() on the same tables the
\* ACPI buffer is byte-identical to the buffer after the first run.
C8_RerunIdentical == acpi_runs >= 2 => RSDPS_AREA.bytes = acpi_first

C8_Witness == acpi_runs >= 2 /\ acpi_first # << >> /\ RSDPS_AREA.bytes = acpi_first

\* C9: with no ACPI-kind entry, or with the examined ACPI-kind entry failing
\* validation, discovery leaves an empty buffer, the boot goes on, and the
\* kernel is entered with acpi_rsdps_size = 0.
C9_EmptyAcpiTolerated ==
    (acpi_runs > 0 /\ (FindMap(fw_cfg, 1) = << >> \/ ~rsdp_result.ok)) =>
        /\ RSDPS_AREA.some
        /\ RSDPS_AREA.bytes = << >>
        /\ err = "None"
        /\ pc \in InnerSteps \cup PagingSteps \cup {"entered"}
        /\ (pc = "entered" => args.acpi_rsdps_size = 0)

C9_Witness ==
    /\ pc = "entered"
    /\ rsdp_result.called
    /\ ~rsdp_result.ok
    /\ args.acpi_rsdps_size = 0

\* a handle that meets the claim's conditions
Qualifies(h) ==
    /\ h.bio_ok /\ h.logical
    /\ h.part_ok /\ h.sys # 1
    /\ \/ h.ty = "Gpt" /\ h.guid \in {"REDOX_FS", "LINUX_FS"}
       \/ h.ty = "Mbr" /\ h.mbr_ty = MbrLinux

FirstQualifying(hs) ==
    CHOOSE i \in 1..Len(hs) :
        Qualifies(hs[i]) /\ \A j \in 1..(i - 1) : ~Qualifies(hs[j])

C11_EspNeverSelected ==
    block_io.kind = "ok" =>
        LET h == fw_handles[block_io.idx]
        IN  /\ h.sys # 1
            /\ ~(h.ty = "Gpt" /\ h.guid = "ESP")

C11_Witness ==
    /\ block_io.kind = "ok"
    /\ block_io.idx = 2
    /\ fw_handles[1].sys = 1
    /\ fw_handles[1].guid = "ESP"

\* C12: when no enumerated handle qualifies, get_correct_block_io() ends by
\* returning the error NotFound, which inner() returns to main(); it does not
\* end in any other way.
C12_NotFoundWhenNoneQualifies ==
    (block_io.kind # "None" /\ \A i \in 1..Len(fw_handles) : ~Qualifies(fw_handles[i]))
        => /\ block_io.kind = "err"
           /\ err = "NotFound"
           /\ pc \in {"failed", "wait_key", "reset_system", "reset"}

\* the top-level and directory-pointer entries the claim gives for tables at P
TopLevelLinked(mem, P) ==
    /\ At(mem, 0, 0) = At(mem, 0, 256)
    /\ At(mem, 0, 0) = Add64(P, U64(4096 + 2 + 1))
    /\ At(mem, 0, 511) = Add64(P, U64(2 + 1))
    /\ \A i \in 0..5 : At(mem, 1, i) = Add64(P, U64(8192 + i * 4096 + 2 + 1))
    /\ \A e \in 0..511 : e \notin {0, 256, 511} => At(mem, 0, e) = Zero64
    /\ \A e \in 6..511 : At(mem, 1, e) = Zero64

\* directory entry k is k * 2 MiB with bits 7, 1 and 0: nothing above bit 63,
\* nothing else below bit 21
DirectoriesMapped(mem) ==
    \A k \in 0..(6 * 512 - 1) : At(mem, 2 + (k \div 512), k % 512) = << 0, k, 128 + 2 + 1 >>

\* C13: in tables built at P, top-level entries 0 and 256 are equal and are
\* (P + 0x1000) | writable | present, entry 511 is P | writable | present,
\* directory-pointer entry i is (P + 0x2000 + i * 0x1000) | writable | present
\* for i in 0..5, and every other entry of those two tables is zero.
C13_TopLevelAndPointers == pt.built => TopLevelLinked(PtMem, pt.base)

C13_Witness ==
    /\ pt.built
    /\ page_phys.ok
    /\ fw_pages.fill # Zero64
    /\ pt.base = U64(LargePage - 4096)
    /\ At(PtMem, 0, 256) = << 0, 1, 3 >>

\* C14: in built tables the k-th directory entry, counted across the six
\* directory tables, is (k * 0x200000) | large | writable | present for every k
\* in [0, 6 * 512): the running addition leaves the flag bits alone and does
\* not wrap.
C14_DirectoryEntries == pt.built => DirectoriesMapped(PtMem)

C14_Witness ==
    /\ pt.built
    /\ At(PtMem, 7, 511)[2] = 3071
    /\ fw_pages.fill # Zero64

Written(r) == \E i \in 1..Len(reg_writes) : reg_writes[i] = r

\* C15: the activation writes CR4 (OSXSAVE, SSE, PGE, PAE, PSE), then EFER
\* (LME, NXE), then CR3 (base of the built top-level table), then CR0 (PG, WP,
\* PE); once the loader has written CR0, PAE and LME are set and CR3 holds the
\* base of the built tables.
C15_ActivationOrder ==
    /\ IsPrefix(reg_writes, << "cr4", "efer", "cr3", "cr0" >>)
    /\ (reg_writes # << >> => pt.built)
    /\ (Written("cr4") => {"OSXSAVE", "SSE", "PGE", "PAE", "PSE"} \subseteq cr4)
    /\ (Written("efer") => {"LME", "NXE"} \subseteq efer)
    /\ (Written("cr3") => cr3 = [firmware |-> FALSE, base |-> pt.base])
    /\ (Written("cr0") =>
            /\ {"PG", "WP", "PE"} \subseteq cr0
            /\ "PAE" \in cr4
            /\ "LME" \in efer
            /\ ~cr3.firmware
            /\ cr3.base = pt.base)

C15_Witness ==
    /\ reg_writes = << "cr4", "efer", "cr3", "cr0" >>
    /\ page_phys.ok
    /\ cr3.base = fw_pages.base
    /\ cr3.base # U64(PT_BASE)
    /\ pc = "entered"

\* C16: paging_create() asks AllocatePages once, for 2 + 6 pages of
\* runtime-services data; on success it returns the base of fully built tables;
\* on failure it returns the failure, no table entry is written and no control
\* register is changed.
C16_CreateOrFail ==
    page_phys.called =>
        /\ alloc = [calls |-> 1, pages |-> 8, type |-> "EfiRuntimeServicesData"]
        /\ IF fw_pages.status = "Success"
           THEN /\ page_phys.ok
                /\ page_phys.base = fw_pages.base
                /\ pt.built
                /\ pt.base = page_phys.base
                /\ TopLevelLinked(PtMem, page_phys.base)
                /\ DirectoriesMapped(PtMem)
           ELSE /\ ~page_phys.ok
                /\ page_phys.status = fw_pages.status
                /\ err = fw_pages.status
                /\ ~pt.built
                /\ \A i \in 1..TableLen : PtMem[i] = fw_pages.fill
                /\ reg_writes = << >>
                /\ cr0 = {"PE", "PG"} /\ cr4 = {"PAE"} /\ efer = {"LME"}
                /\ cr3.firmware
                /\ pc \in {"failed", "wait_key", "reset_system", "reset"}

C16_Witness ==
    /\ page_phys.called
    /\ ~page_phys.ok
    /\ alloc.calls = 1
    /\ pc = "reset"

\* positions after the kernel was read
AfterLoad == InnerSteps \cup PagingSteps \cup {"entered"}

\* non-empty reads a source of L bytes takes
Chunks(L) == (L + BufferLen - 1) \div BufferLen

\* C17: from a source that advertises L > 0 bytes and delivers min(4 MiB,
\* remaining) per read, the loop makes ceil(L / 4 MiB) non-empty reads of those
\* sizes, then one read of zero bytes, and no more; the buffer then holds L
\* bytes, the extents of the source in order.
C17_ReadLoopExact ==
    (fw_kernel.len > 0 /\ fw_kernel.avail = fw_kernel.len) =>
        LET L == fw_kernel.len
            n == Chunks(L)
        IN  /\ Len(reads) <= n + 1
            /\ \A i \in 1..Len(reads) :
                  reads[i] = IF i <= n THEN Min(BufferLen, L - (i - 1) * BufferLen) ELSE 0
            /\ kernel.len = SumCounts(reads, Len(reads))
            /\ Len(kernel.exts) = Min(Len(reads), n)
            /\ \A i \in 1..Len(kernel.exts) :
                  kernel.exts[i] = [off |-> (i - 1) * BufferLen, n |-> reads[i]]
            /\ (pc \in AfterLoad => Len(reads) = n + 1 /\ kernel.len = L)

C17_Witness ==
    /\ pc = "copy_kernel"
    /\ block_io.kind = "ok"
    /\ fw_kernel.len = 10 * MB
    /\ reads = << 4 * MB, 4 * MB, 2 * MB, 0 >>
    /\ kernel.len = 10 * MB

\* C18: past the read loop the buffer holds exactly the advertised number of
\* bytes: a source that stops early never gets its short buffer copied.
C18_ShortReadIsFatal == pc \in AfterLoad => kernel.len = len

\* C19: an image is copied, and the boot goes on, only when it is long enough
\* to hold the entry field at 0x18, and the entry used is that field.
C19_ShortImageRejected ==
    copies # << >> =>
        /\ kernel.len >= 32
        /\ KERNEL_ENTRY = fw_kernel.entry

\* the 4 KiB frame an entry points at
FrameOf(e) == << e[1], e[2], (e[3] \div 4096) * 4096 >>

\* the pages of the tables at base that entry e points at
TablesAt(e, base) == {t \in 0..7 : Add64(base, U64(t * 4096)) = FrameOf(e)}

\* The physical address the processor finds for the virtual address va in the
\* tables mem at base, or "fault": 9 index bits per level from bit 47 down,
\* 2 MiB pages at the directory level.
Translate(mem, base, va) ==
    LET i4 == (va.hi % 2) * 256
        i3 == (va.lo \div 1073741824) % 512
        i2 == (va.lo \div 2097152) % 512
        e4 == At(mem, 0, i4)
        t3 == TablesAt(e4, base)
    IN  IF e4[3] % 2 = 0 \/ t3 = {} THEN "fault"
        ELSE LET e3 == At(mem, CHOOSE t \in t3 : TRUE, i3)
                 t2 == TablesAt(e3, base)
             IN  IF e3[3] % 2 = 0 \/ t2 = {} THEN "fault"
                 ELSE LET e2 == At(mem, CHOOSE t \in t2 : TRUE, i2)
                      IN  IF e2[3] % 2 = 0 \/ (e2[3] \div 128) % 2 = 0 THEN "fault"
                          ELSE << e2[1], e2[2], va.lo % 2097152 >>

\* what the claim says of every field but env_base
ArgsOtherFields ==
    /\ args.kernel_base = KERNEL_PHYSICAL
    /\ args.kernel_size = kernel.len
    /\ args.stack_base = Addr(131071, 524288)
    /\ args.stack_size = 126976
    /\ args.env_size = env_len
    /\ args.acpi_rsdps_size = Len(RSDPS_AREA.bytes)
    /\ copies = << [src |-> "kernel", dst |-> args.kernel_base, n |-> args.kernel_size],
                   [src |-> "env", dst |-> 524288, n |-> args.env_size] >>

\* the statics are written by their step and by no later one; every such step
\* comes before ExitBootServices
WrittenOnce ==
    /\ ("copy_kernel" \in {steps[i] : i \in 1..Len(steps)}
            => UNCHANGED << KERNEL_SIZE, KERNEL_ENTRY >>)
    /\ ("copy_env" \in {steps[i] : i \in 1..Len(steps)} => UNCHANGED ENV_SIZE)
    /\ ("acpi" \in {steps[i] : i \in 1..Len(steps)} => UNCHANGED RSDPS_AREA)
    /\ (ebs.calls > 0 => UNCHANGED << KERNEL_SIZE, KERNEL_ENTRY, ENV_SIZE, RSDPS_AREA >>)

\* C20 as claimed: env_base is the address the environment string was copied
\* to, and the other fields are as stated.
C20_ArgsAsClaimed ==
    pc = "entered" => ArgsOtherFields /\ args.env_base = Addr(0, copies[2].dst)

\* C20 amended: kernel_base is the load address the image was copied to,
\* kernel_size the image length, stack_base and stack_size the boot stack's
\* virtual base and size, env_size the environment length, acpi_rsdps_size the
\* ACPI buffer length; env_base is the address the environment was copied to
\* plus PHYSICAL_OFFSET, which the tables in force translate to that address;
\* the statics are written once, before ExitBootServices, and not again.
C20_ArgsAmended ==
    /\ [](pc = "entered" =>
            /\ ArgsOtherFields
            /\ args.env_base = Addr(131071, copies[2].dst)
            /\ Translate(PtMem, cr3.base, args.env_base) = U64(copies[2].dst))
    /\ [][WrittenOnce]_vars

C20_Witness ==
    /\ pc = "entered"
    /\ args.env_size = RedoxfsEnvLen
    /\ args.kernel_size = 10 * MB
    /\ args.acpi_rsdps_size = 0
    /\ ebs.calls = 1

\* ------------------------------------------------------------------- C21
\* C21: after every failure inner() returns, main() reports it, waits for a key
\* and asks for a cold reset whose status argument is the failure's status code;
\* main() does not return.
C21_ResetCarriesStatus ==
    /\ (pc \in {"wait_key", "reset_system", "reset"}) => err # "None"
    /\ reset.called =>
          /\ pc = "reset"
          /\ reset.type = "Cold"
          /\ reset.status = err

\* ------------------------------------------------------------- C22, C23
HasKind(cfg, k) == \E i \in 1..Len(cfg) : cfg[i].kind = k

\* the buffer holds nothing, or one frame for one ACPI-kind entry's structure
AtMostOneRecorded ==
    \/ RSDPS_AREA.bytes = << >>
    \/ \E i \in 1..Len(fw_cfg) :
          /\ fw_cfg[i].kind \in AcpiKinds
          /\ \E L \in 1..MemSpan : IsFrame(RSDPS_AREA.bytes, fw_cfg[i].mem, L)

\* C22: when the configuration tables hold both an ACPI v1 entry and an ACPI
\* v2 entry, in either order, the structure discovery examines is the v2
\* entry's, and at most one structure is recorded in the buffer.
C22_V2Preferred ==
    (acpi_runs > 0 /\ HasKind(fw_cfg, "Acpi") /\ HasKind(fw_cfg, "Acpi2")) =>
        /\ rsdp_result.called
        /\ rsdp_result.v2
        /\ AtMostOneRecorded

\* C23: when an ACPI candidate fails validation the scan goes on, so that a
\* later ACPI-kind entry with a valid structure is captured into the buffer.
C23_ScanContinues ==
    (acpi_runs > 0 /\ \E i \in 1..Len(fw_cfg) :
                         /\ fw_cfg[i].kind \in AcpiKinds
                         /\ validate_rsdp(fw_cfg[i].mem, fw_cfg[i].kind = "Acpi2").ok) =>
        RSDPS_AREA.bytes # << >>

\* ------------------------------------------------------------------- C24
HexChars == {HexDigits[i] : i \in 1..16}

\* s[a..b] are hex digits
AllHex(s, a, b) == \A i \in a..b : s[i] \in HexChars

\* "REDOXFS_BLOCK=<16 hex digits>\nREDOXFS_UUID=<8-4-4-4-12 hex digits>"
ClaimedEnvFormat(s) ==
    /\ Len(s) = 80
    /\ SubSeq(s, 1, 14) = BlockLabel
    /\ AllHex(s, 15, 30)
    /\ s[31] = "\n"
    /\ SubSeq(s, 32, 44) = UuidLabel
    /\ AllHex(s, 45, 52) /\ s[53] = "-"
    /\ AllHex(s, 54, 57) /\ s[58] = "-"
    /\ AllHex(s, 59, 62) /\ s[63] = "-"
    /\ AllHex(s, 64, 67) /\ s[68] = "-"
    /\ AllHex(s, 69, 80)

\* positions of main() after inner() returned an error
FailSteps == {"failed", "wait_key", "reset_system", "reset"}

NativeSteps == {"find", "read_native", "native_loop"}

\* C24: the native lookup is tried first and the RedoxFS partition only when
\* the native strategy fails, at lookup, at stat or during a read; the partition
\* locator is not invoked when the native strategy succeeds; the environment
\* string is empty exactly when the kernel came from the native strategy and has
\* the REDOXFS_BLOCK / REDOXFS_UUID form when it came from the fallback.
C24_StrategyOrder ==
    /\ (pc \in NativeSteps) => block_io.kind = "None"
    /\ (fw_native = "ok") => block_io.kind = "None"
    /\ (fw_native # "ok" /\ pc \in FailSteps) => block_io.kind # "None"
    /\ (pc = "entered" /\ fw_native = "ok") => env = << >>
    /\ (pc = "entered" /\ fw_native # "ok") => ClaimedEnvFormat(env)

\* ------------------------------------------------------------------- C25
\* an address of the model's narrow form in the wide form
Wide(a) == WAddr(a.hi, a.lo \div GiB, a.lo % GiB)

\* The physical address the processor finds for the wide virtual address va in
\* the tables mem at base, or "fault".
Walk(mem, base, va) ==
    LET i4 == (va.hi % 2) * 256 + (va.g \div 512)
        i3 == va.g % 512
        i2 == va.lo \div 2097152
        e4 == At(mem, 0, i4)
        t3 == TablesAt(e4, base)
    IN  IF e4[3] % 2 = 0 \/ t3 = {} THEN "fault"
        ELSE LET e3 == At(mem, CHOOSE t \in t3 : TRUE, i3)
                 t2 == TablesAt(e3, base)
             IN  IF e3[3] % 2 = 0 \/ t2 = {} THEN "fault"
                 ELSE LET e2 == At(mem, CHOOSE t \in t2 : TRUE, i2)
                      IN  IF e2[3] % 2 = 0 \/ (e2[3] \div 128) % 2 = 0 THEN "fault"
                          ELSE << e2[1], e2[2], va.lo % 2097152 >>

\* va is an identity-mapped address or one of the higher-half window, and the
\* tables in force translate it
Mapped(va) ==
    /\ va.hi \in {0, 131071}
    /\ Walk(PtMem, cr3.base, va) # "fault"

\* C25: at the jump, every address in KernelArgs and the stack pointer are
\* translated by the tables the loader activated: the stack's virtual base and
\* top resolve to the stack's physical range, and every other address field is
\* identity-mapped or in the mapped higher-half window.
C25_ArgsAreMapped ==
    pc = "entered" =>
        /\ ~cr3.firmware
        /\ Walk(PtMem, cr3.base, Wide(args.stack_base)) = U64(524288)
        /\ Walk(PtMem, cr3.base, Wide(rsp.addr)) = U64(524288 + 126976)
        /\ Mapped(Wide(Addr(0, args.kernel_base)))
        /\ Mapped(Wide(args.env_base))
        /\ Mapped(args.acpi_rsdps_base)

\* ------------------------------------------------------------------- C26
\* the entries of the table pages the loader has written: those that no longer
\* hold what the firmware left
WrittenEntries == {i \in 1..TableLen : PtMem[i] # RawPages(fw_pages.fill)[i]}

\* the page an entry lies in
PageOf(i) == (i - 1) \div EntriesPerTable

\* C26: the fixed-base builder writes only inside the 6 pages starting at the
\* fixed page-table base, every page holding a table was zeroed before its
\* entries were written, and the table region does not reach the boot stack's
\* physical range.
C26_TablesInSixPages ==
    (pt.built /\ ~page_phys.called) =>
        /\ pt.base = U64(458752)
        /\ \A i \in WrittenEntries : PageOf(i) < 6
        /\ \A i \in WrittenEntries : PageOf(i) < pt.zeroed
        /\ \A i \in WrittenEntries : 458752 + PageOf(i) * 4096 + 4096 <= 524288

\* ------------------------------------------------------------------- C27
\* C27: between the GetMemoryMap call that produced the key and the
\* ExitBootServices call that consumes it, the loader invokes no firmware
\* service, so it never makes its own key stale.
C27_NoServiceBetween ==
    ebs.calls > 0 =>
        /\ gmm.since = 0
        /\ ebs.status = "Success"

\* ------------------------------------------------------------------- C28
\* C28: for every map that fits the 65536-byte scratch buffer, every record
\* memory_map() writes lies inside [MM_BASE, MM_BASE + MM_SIZE), the mode record
\* at VBE_BASE written by the preceding step is not overwritten, and every
\* descriptor read lies inside the scratch buffer.
C28_TableInsideBuffer ==
    (gmm.calls > 0 /\ Len(fw_map.descs) * fw_map.dsize <= 65536) =>
        /\ 1280 + Len(mm_table) * 24 <= 1280 + 19200
        /\ vbe
        /\ \A i \in 1..Len(mm_table) : (i - 1) * fw_map.dsize + 40 <= 65536

\* ------------------------------------------------------------------- C29
\* C29: the progress computation kernel.len() * 100 / len of the read loops is
\* defined on every pass for every advertised length, 0 included: no pass
\* divides by zero, and the product stays below 2^64 (the buffer never holds
\* more than the source delivers, far below 2^64 / 100).
C29_PercentDefined ==
    /\ (pc = "panicked") => block_io.kind = "panic"
    /\ kernel.len <= fw_kernel.avail

====
